---------------------------- MODULE Spec2Model ----------------------------
(***************************************************************************)
(* Model of AudioBufferUtils (src/cpp/FluidAudioTurboModule.cpp): the      *)
(* PCM16 <-> float32 sample codec pcm16ToFloat / floatToPcm16 and the two  *)
(* ArrayBuffer wrappers that call them.                                    *)
(*                                                                         *)
(* A float32 is a record [k, s, m, e]:                                     *)
(*   k = "nan"                      a NaN                                  *)
(*   k = "inf", s                   (-1)^s * infinity                      *)
(*   k = "num", s, m, e             (-1)^s * m * 2^e, with either          *)
(*        2^23 <= m < 2^24 and -149 <= e <= 104   (normal), or             *)
(*        0 <= m < 2^23 and e = -149              (zero, subnormal).       *)
(* All float arithmetic below is IEEE-754 binary32, round to nearest even, *)
(* computed exactly on these integers (in pieces that stay below 2^31).    *)
(* int16_t accesses through the reinterpret_cast pointers are native       *)
(* endian; the targets of the module (arm64, x86-64) are little-endian and *)
(* perform them as plain two-byte loads and stores at any alignment.       *)
(***************************************************************************)
EXTENDS Integers, Sequences, FiniteSets, TLC

VARIABLES
    pc,          \* pc[c]: where call c is: "idle", "dec_loop", "dec_done", "enc_loop", "enc_done"
    data,        \* data[c]: the caller's byte buffer handed to pcm16ToFloat (const uint8_t* data, byteLength)
    inSamples,   \* inSamples[c]: the caller's vector handed to floatToPcm16 (const std::vector<float>&)
    sampleCount, \* sampleCount[c]: the loop bound of call c
    i,           \* i[c]: the loop index of call c
    clamped,     \* clamped[c]: the local float clamped of the last floatToPcm16 iteration
    samples,     \* samples[b]: the float vector in storage slot b (pcm16ToFloat's result)
    pcmData,     \* pcmData[b]: the byte vector in storage slot b (floatToPcm16's result)
    iters,       \* iters[c]: loop iterations call c has executed (history)
    reads,       \* reads[c]: 0-based byte offsets of data[c] the call has read (history)
    ub,          \* ub[c]: the call has executed undefined behaviour (history)
    argBytes,    \* argBytes[c]: the byte buffer as it was when the call was made (history)
    origin,      \* origin[c]: the input that started the current chain of conversions (history)
    hops         \* hops[c]: conversions completed since origin[c] was supplied (history)

vars == <<pc, data, inSamples, sampleCount, i, clamped, samples, pcmData,
          iters, reads, ub, argBytes, origin, hops>>

----------------------------------------------------------------------------
(* Bounds of the model. *)

NumCalls == 2       \* concurrent callers in ConcSpec
MaxBytes == 4       \* longest byte buffer drawn from ByteAlphabet
MaxSamples == 2     \* longest sample vector drawn from FloatAlphabet
MaxHops == 4        \* longest chain of conversions fed back into each other
MantBits == 4       \* leading mantissa bits enumerated in GridFloats

Calls == 1..NumCalls

----------------------------------------------------------------------------
(* float32 values. *)

Pow2(n) == 2^n

NaN == [k |-> "nan", s |-> 0, m |-> 0, e |-> 0]
Inf(sg) == [k |-> "inf", s |-> sg, m |-> 0, e |-> 0]
Num(sg, mm, ee) == [k |-> "num", s |-> sg, m |-> mm, e |-> ee]
Zero(sg) == Num(sg, 0, -149)
One(sg) == Num(sg, Pow2(23), -23)

\* Number of bits of a natural number below 2^31.
BitLen(n) == IF n = 0 THEN 0 ELSE CHOOSE b \in 1..31 : Pow2(b - 1) <= n /\ n < Pow2(b)

\* |a| < |b| for two non-NaN values (the normal form orders magnitudes by (e, m)).
MagLess(a, b) ==
    IF a.k = "inf" THEN FALSE
    ELSE IF b.k = "inf" THEN TRUE
    ELSE a.e < b.e \/ (a.e = b.e /\ a.m < b.m)

IsZero(a) == a.k = "num" /\ a.m = 0

\* operator< on float: false when either side is NaN; -0 and +0 are equal.
FLess(a, b) ==
    IF a.k = "nan" \/ b.k = "nan" THEN FALSE
    ELSE IF IsZero(a) /\ IsZero(b) THEN FALSE
    ELSE IF a.s = 1 /\ b.s = 0 THEN TRUE
    ELSE IF a.s = 0 /\ b.s = 1 THEN FALSE
    ELSE IF a.s = 0 THEN MagLess(a, b)
    ELSE MagLess(b, a)

\* Mutant: std::min written as (a < b) ? a : b.
StdMinSecond(a, b) == IF FLess(a, b) THEN a ELSE b

\* std::min(a, b): (b < a) ? b : a
StdMin(a, b) == IF FLess(b, a) THEN b ELSE a

\* std::max(a, b): (a < b) ? b : a
StdMax(a, b) == IF FLess(a, b) THEN b ELSE a

\* Mutant: No clamp at all.
ClampNone(s) == s

\* Mutant: Only the upper bound applied: std::min(1.0f, s).
ClampUpperOnly(s) == StdMin(One(0), s)

\* std::max(-1.0f, std::min(1.0f, s))
Clamp(s) == StdMax(One(1), StdMin(One(0), s))

\* static_cast<float>(v) of an int16_t v: exact.
Int16ToFloat(v) ==
    IF v = 0 THEN Zero(0)
    ELSE LET a == IF v < 0 THEN -v ELSE v
             b == BitLen(a)
         IN  Num(IF v < 0 THEN 1 ELSE 0, a * Pow2(24 - b), b - 24)

\* f / 32768.0f for f = static_cast<float>(int16_t): an exact exponent shift
\* (such f is zero or has e >= -23, so the quotient never leaves the normal range).
FDiv32768(f) == IF f.k # "num" \/ f.m = 0 THEN f ELSE Num(f.s, f.m, f.e - 15)

\* Round the natural number hi * 2^15 + lo (0 <= lo < 2^15, hi < 2^24) to 24
\* significant bits, to nearest, ties to even: <<mantissa, bits dropped>>.
Round24(hi, lo) ==
    LET hb == BitLen(hi)
    IN  IF hb <= 9 THEN <<hi * Pow2(15) + lo, 0>>
        ELSE LET d == hb - 9
                 q == hi * Pow2(15 - d) + (lo \div Pow2(d))
                 r == lo % Pow2(d)
                 half == Pow2(d - 1)
                 up == r > half \/ (r = half /\ q % 2 = 1)
                 q2 == IF up THEN q + 1 ELSE q
             IN  IF q2 = Pow2(24) THEN <<Pow2(23), d + 1>> ELSE <<q2, d>>

\* Mutant: The scale 32768.0f, the mirror of the decoder's divisor.
FMul32768(f) == IF f.k # "num" \/ f.m = 0 THEN f ELSE Num(f.s, f.m, f.e + 15)

\* f * 32767.0f.  m * 32767 = m * 2^15 - m = hi * 2^15 + lo with, for
\* m = a * 2^15 + b:  hi = m - a - [b > 0],  lo = (2^15 - b) mod 2^15.
FMul32767(f) ==
    IF f.k # "num" \/ f.m = 0 THEN f
    ELSE LET a == f.m \div Pow2(15)
             b == f.m % Pow2(15)
             hi == IF b > 0 THEN f.m - a - 1 ELSE f.m - a
             lo == IF b > 0 THEN Pow2(15) - b ELSE 0
             r == Round24(hi, lo)
         IN  IF f.e + r[2] > 104 THEN Inf(f.s) ELSE Num(f.s, r[1], f.e + r[2])

\* The integer part of |f| for a finite f with |f| < 2^24 * 2^0.
TruncMag(f) ==
    IF f.e >= 0 THEN f.m * Pow2(f.e)
    ELSE IF -f.e >= 24 THEN 0
    ELSE f.m \div Pow2(-f.e)

\* Whether the truncated value of f fits int16_t.
FitsInt16(f) ==
    /\ f.k = "num"
    /\ f.e <= 6
    /\ \/ TruncMag(f) <= 32767
       \/ f.s = 1 /\ TruncMag(f) = 32768

\* Mutant: Rounding toward minus infinity (std::floor before the cast).
FloorCast(f) == IF f.s = 1 /\ f.e < 0 /\ (-f.e >= 24 \/ f.m % 2^(-f.e) # 0) /\ f.m # 0
                THEN -TruncMag(f) - 1
                ELSE IF f.s = 1 THEN -TruncMag(f) ELSE TruncMag(f)

\* The truncated value of f, when it fits.
TruncToward0(f) == IF f.s = 1 THEN -TruncMag(f) ELSE TruncMag(f)

Int16 == -32768..32767

\* static_cast<int16_t>(f): truncation toward zero when the truncated value is
\* representable; otherwise the behaviour is undefined and any int16_t may result.
CastInt16(f) == IF FitsInt16(f) THEN {TruncToward0(f)} ELSE Int16

\* The two bytes of an int16_t in memory, low byte first.
Int16Bytes(v) == LET u == (v + 65536) % 65536 IN <<u % 256, u \div 256>>

\* Mutant: The pair read as uint16_t instead of int16_t.
Int16OfUnsigned(lo, hi) == lo + 256 * hi

\* The int16_t whose two bytes in memory are lo, hi.
Int16Of(lo, hi) == LET u == lo + 256 * hi IN IF u >= 32768 THEN u - 65536 ELSE u


----------------------------------------------------------------------------
(* The two conversions as functions of their input (a call run alone). *)

\* pcmData[j] of pcm16ToFloat, j 0-based: the int16_t at bytes 2j, 2j+1.
ReadInt16(bytes, j) == Int16Of(bytes[2 * j + 1], bytes[2 * j + 2])

\* Mutant: The division by 32768.0f forgotten.
DecodeSampleUnscaled(v) == Int16ToFloat(v)

\* static_cast<float>(pcmData[j]) / 32768.0f
DecodeSample(v) == FDiv32768(Int16ToFloat(v))

\* Mutant: byteLength / 2 rounded up: the odd trailing byte would start a sample.
SampleCountCeil(byteLength) == (byteLength + 1) \div 2

\* The loop bound of pcm16ToFloat: byteLength / 2 (size_t division).
SampleCountOf(byteLength) == byteLength \div 2

pcm16ToFloat(bytes) ==
    [j \in 1..SampleCountOf(Len(bytes)) |-> DecodeSample(ReadInt16(bytes, j - 1))]

\* Mutant: samples.size() bytes: the factor 2 forgotten.
PcmSizeOne(n) == n

\* The size of floatToPcm16's byte vector: samples.size() * 2.
PcmSizeOf(n) == n * 2

\* The int16_t floatToPcm16 stores for sample s when the cast is defined.
EncodeSample(s) == TruncToward0(FMul32767(Clamp(s)))

floatToPcm16(fs) ==
    [b \in 1..PcmSizeOf(Len(fs)) |-> Int16Bytes(EncodeSample(fs[(b + 1) \div 2]))[2 - (b % 2)]]

----------------------------------------------------------------------------
(* Storage.  Both functions build their result in a local std::vector      *)
(* (automatic storage, one per invocation): invocation c owns slot c.      *)

\* Mutant: One static result vector shared by all invocations.
SharedSlot(c) == 1

SamplesSlot(c) == c
PcmSlot(c) == c

\* The value a read of byte offset k (0-based) of a buffer may yield: a read
\* past the end of the buffer is undefined and may yield any byte.
ByteAt(bytes, k) == IF k < Len(bytes) THEN {bytes[k + 1]} ELSE 0..255

ZeroFloats(n) == [j \in 1..n |-> Zero(0)]
ZeroBytes(n) == [j \in 1..n |-> 0]

\* vec with elements at..at+Len(vals)-1 (1-based) replaced; positions outside
\* the vector are left alone (the write is then undefined behaviour).
Store(vec, at, vals) ==
    [j \in 1..Len(vec) |-> IF j >= at /\ j < at + Len(vals) THEN vals[j - at + 1] ELSE vec[j]]

----------------------------------------------------------------------------
(* Inputs. *)

ByteAlphabet == {0, 1, 127, 128, 255}

SeqsUpTo(S, n) == UNION {[1..l -> S] : l \in 0..n}

ByteInputs == SeqsUpTo(ByteAlphabet, MaxBytes)

\* +-0, +-1, NaN, +-infinity, 1.5, -2.0, +-0.9f, the float below 1.0f.
FloatAlphabet ==
    { Zero(0), Zero(1), One(0), One(1), NaN, Inf(0), Inf(1),
      Num(0, 3 * Pow2(22), -23), Num(1, Pow2(23), -22),
      Num(0, 15099494, -24), Num(1, 15099494, -24),
      Num(0, Pow2(24) - 1, -24) }

\* 0.5, -0.75, the float below -1.0f, the float above 1.0f, the floats
\* nearest below +-1/32767 (their product with 32767.0f rounds to +-1.0f),
\* the least subnormal, FLT_MAX.
EdgeFloats ==
    { Num(0, Pow2(23), -24), Num(1, 3 * Pow2(22), -24),
      Num(1, Pow2(24) - 1, -24), Num(0, Pow2(23) + 1, -23),
      Num(0, 8388864, -38), Num(1, 8388864, -38),
      Num(0, 1, -149), Num(0, Pow2(24) - 1, 104) }

FloatInputs == SeqsUpTo(FloatAlphabet, MaxSamples)

\* Every 16-bit pattern as a one-sample buffer.
AllPatterns == {<<lo, hi>> : lo \in 0..255, hi \in 0..255}

\* Floats of magnitude in [2^-17, 1) whose mantissa is any MantBits leading
\* bits followed by all zeros or by all ones.
GridMantissas ==
    UNION {{Pow2(23) + t * Pow2(23 - MantBits),
            Pow2(23) + (t + 1) * Pow2(23 - MantBits) - 1} : t \in 0..(Pow2(MantBits) - 1)}

GridFloats == {Num(sg, mm, ee) : sg \in {0, 1}, mm \in GridMantissas, ee \in -40..-24}

PatternByteInputs == AllPatterns \cup ByteInputs
PatternFloatInputs == {<<f>> : f \in GridFloats \cup EdgeFloats \cup FloatAlphabet}

ConcByteInputs == {<<>>, <<0, 128>>, <<255, 127, 1>>, <<1, 0, 255, 255>>, <<0, 0, 52, 237, 255, 127>>}
ConcFloatInputs == {<<>>, <<NaN>>, <<One(1), Num(0, 15099494, -24)>>, <<Inf(1), Zero(1), Num(1, 15099494, -24)>>}

----------------------------------------------------------------------------
(* The state machine. *)

Idle ==
    [c \in Calls |-> "idle"]

Init ==
    /\ pc = Idle
    /\ data = [c \in Calls |-> <<>>]
    /\ inSamples = [c \in Calls |-> <<>>]
    /\ sampleCount = [c \in Calls |-> 0]
    /\ i = [c \in Calls |-> 0]
    /\ clamped = [c \in Calls |-> Zero(0)]
    /\ samples = [c \in Calls |-> <<>>]
    /\ pcmData = [c \in Calls |-> <<>>]
    /\ iters = [c \in Calls |-> 0]
    /\ reads = [c \in Calls |-> {}]
    /\ ub = [c \in Calls |-> FALSE]
    /\ argBytes = [c \in Calls |-> <<>>]
    /\ origin = [c \in Calls |-> <<"none", <<>>>>]
    /\ hops = [c \in Calls |-> 0]

\* Entry of pcm16ToFloat(data, byteLength) up to the loop.
DecodeEnter(c, bytes) ==
    /\ pc' = [pc EXCEPT ![c] = "dec_loop"]
    /\ data' = [data EXCEPT ![c] = bytes]
    /\ argBytes' = [argBytes EXCEPT ![c] = bytes]
    /\ sampleCount' = [sampleCount EXCEPT ![c] = SampleCountOf(Len(bytes))]
    /\ samples' = [samples EXCEPT ![SamplesSlot(c)] = ZeroFloats(SampleCountOf(Len(bytes)))]
    /\ i' = [i EXCEPT ![c] = 0]
    /\ iters' = [iters EXCEPT ![c] = 0]
    /\ reads' = [reads EXCEPT ![c] = {}]
    /\ ub' = [ub EXCEPT ![c] = FALSE]
    /\ UNCHANGED <<inSamples, clamped, pcmData>>

\* Entry of floatToPcm16(samples) up to the loop.
EncodeEnter(c, fs) ==
    /\ pc' = [pc EXCEPT ![c] = "enc_loop"]
    /\ inSamples' = [inSamples EXCEPT ![c] = fs]
    /\ pcmData' = [pcmData EXCEPT ![PcmSlot(c)] = ZeroBytes(PcmSizeOf(Len(fs)))]
    /\ i' = [i EXCEPT ![c] = 0]
    /\ iters' = [iters EXCEPT ![c] = 0]
    /\ reads' = [reads EXCEPT ![c] = {}]
    /\ ub' = [ub EXCEPT ![c] = FALSE]
    /\ UNCHANGED <<data, argBytes, sampleCount, clamped, samples>>

\* A caller hands a byte buffer to pcm16ToFloat.
DecodeCall(c, Inputs) ==
    /\ pc[c] = "idle"
    /\ \E bytes \in Inputs :
         /\ DecodeEnter(c, bytes)
         /\ origin' = [origin EXCEPT ![c] = <<"bytes", bytes>>]
    /\ hops' = [hops EXCEPT ![c] = 0]

\* A caller hands a sample vector to floatToPcm16.
EncodeCall(c, Inputs) ==
    /\ pc[c] = "idle"
    /\ \E fs \in Inputs :
         /\ EncodeEnter(c, fs)
         /\ origin' = [origin EXCEPT ![c] = <<"floats", fs>>]
    /\ hops' = [hops EXCEPT ![c] = 0]

\* One iteration of pcm16ToFloat's loop.
DecodeStep(c) ==
    /\ pc[c] = "dec_loop"
    /\ i[c] < sampleCount[c]
    /\ \E lo \in ByteAt(data[c], 2 * i[c]), hi \in ByteAt(data[c], 2 * i[c] + 1) :
         samples' = [samples EXCEPT ![SamplesSlot(c)] =
                        Store(@, i[c] + 1, <<DecodeSample(Int16Of(lo, hi))>>)]
    /\ ub' = [ub EXCEPT ![c] = @ \/ 2 * i[c] + 1 >= Len(data[c])
                                 \/ i[c] + 1 > Len(samples[SamplesSlot(c)])]
    /\ reads' = [reads EXCEPT ![c] = @ \cup {2 * i[c], 2 * i[c] + 1}]
    /\ i' = [i EXCEPT ![c] = @ + 1]
    /\ iters' = [iters EXCEPT ![c] = @ + 1]
    /\ UNCHANGED <<pc, data, inSamples, sampleCount, clamped, pcmData, argBytes, origin, hops>>

\* pcm16ToFloat's loop condition fails: return samples.
DecodeReturn(c) ==
    /\ pc[c] = "dec_loop"
    /\ ~(i[c] < sampleCount[c])
    /\ pc' = [pc EXCEPT ![c] = "dec_done"]
    /\ hops' = [hops EXCEPT ![c] = @ + 1]
    /\ UNCHANGED <<data, inSamples, sampleCount, i, clamped, samples, pcmData,
                   iters, reads, ub, argBytes, origin>>

\* One iteration of floatToPcm16's loop.
EncodeStep(c) ==
    /\ pc[c] = "enc_loop"
    /\ i[c] < Len(inSamples[c])
    /\ \E cl \in {Clamp(inSamples[c][i[c] + 1])} :
       \E p \in {FMul32767(cl)} :
           /\ clamped' = [clamped EXCEPT ![c] = cl]
           /\ \E v \in CastInt16(p) :
                pcmData' = [pcmData EXCEPT ![PcmSlot(c)] =
                               Store(@, 2 * i[c] + 1, Int16Bytes(v))]
           /\ ub' = [ub EXCEPT ![c] = @ \/ ~FitsInt16(p)
                                        \/ 2 * i[c] + 2 > Len(pcmData[PcmSlot(c)])]
    /\ i' = [i EXCEPT ![c] = @ + 1]
    /\ iters' = [iters EXCEPT ![c] = @ + 1]
    /\ UNCHANGED <<pc, data, inSamples, sampleCount, samples, reads, argBytes, origin, hops>>

\* floatToPcm16's loop condition fails: return pcmData.
EncodeReturn(c) ==
    /\ pc[c] = "enc_loop"
    /\ ~(i[c] < Len(inSamples[c]))
    /\ pc' = [pc EXCEPT ![c] = "enc_done"]
    /\ hops' = [hops EXCEPT ![c] = @ + 1]
    /\ UNCHANGED <<data, inSamples, sampleCount, i, clamped, samples, pcmData,
                   iters, reads, ub, argBytes, origin>>

\* floatSamplesToArrayBuffer on the vector pcm16ToFloat returned.
ReencodeCall(c) ==
    /\ pc[c] = "dec_done"
    /\ hops[c] < MaxHops
    /\ EncodeEnter(c, samples[SamplesSlot(c)])
    /\ UNCHANGED <<origin, hops>>

\* arrayBufferToFloatSamples on the ArrayBuffer floatSamplesToArrayBuffer
\* filled with a copy of the vector floatToPcm16 returned.
RedecodeCall(c) ==
    /\ pc[c] = "enc_done"
    /\ hops[c] < MaxHops
    /\ DecodeEnter(c, pcmData[PcmSlot(c)])
    /\ UNCHANGED <<origin, hops>>

\* The caller drops the result; nothing of the call remains.
Release(c) ==
    /\ pc[c] \in {"dec_done", "enc_done"}
    /\ pc' = [pc EXCEPT ![c] = "idle"]
    /\ data' = [data EXCEPT ![c] = <<>>]
    /\ inSamples' = [inSamples EXCEPT ![c] = <<>>]
    /\ sampleCount' = [sampleCount EXCEPT ![c] = 0]
    /\ i' = [i EXCEPT ![c] = 0]
    /\ clamped' = [clamped EXCEPT ![c] = Zero(0)]
    /\ samples' = [samples EXCEPT ![SamplesSlot(c)] = <<>>]
    /\ pcmData' = [pcmData EXCEPT ![PcmSlot(c)] = <<>>]
    /\ iters' = [iters EXCEPT ![c] = 0]
    /\ reads' = [reads EXCEPT ![c] = {}]
    /\ ub' = [ub EXCEPT ![c] = FALSE]
    /\ argBytes' = [argBytes EXCEPT ![c] = <<>>]
    /\ origin' = [origin EXCEPT ![c] = <<"none", <<>>>>]
    /\ hops' = [hops EXCEPT ![c] = 0]

\* One caller, inputs over the small alphabets.
Next ==
    \/ DecodeCall(1, ByteInputs)
    \/ EncodeCall(1, FloatInputs)
    \/ DecodeStep(1)
    \/ DecodeReturn(1)
    \/ EncodeStep(1)
    \/ EncodeReturn(1)
    \/ ReencodeCall(1)
    \/ RedecodeCall(1)
    \/ Release(1)

Spec == Init /\ [][Next]_vars

\* One caller, one-sample inputs over every 16-bit pattern and the float grid.
PatternNext ==
    \/ DecodeCall(1, PatternByteInputs)
    \/ EncodeCall(1, PatternFloatInputs)
    \/ DecodeStep(1)
    \/ DecodeReturn(1)
    \/ EncodeStep(1)
    \/ EncodeReturn(1)
    \/ ReencodeCall(1)
    \/ RedecodeCall(1)
    \/ Release(1)

PatternSpec == Init /\ [][PatternNext]_vars

\* NumCalls callers on their own threads, interleaved at every loop iteration.
ConcNext ==
    \E c \in Calls :
        \/ DecodeCall(c, ConcByteInputs)
        \/ EncodeCall(c, ConcFloatInputs)
        \/ DecodeStep(c)
        \/ DecodeReturn(c)
        \/ EncodeStep(c)
        \/ EncodeReturn(c)
        \/ Release(c)

ConcSpec == Init /\ [][ConcNext]_vars

----------------------------------------------------------------------------
(* Vocabulary of the properties, written without the operators of the      *)
(* model so that a change of the model cannot follow into a property.      *)

Decoding(c) == pc[c] \in {"dec_loop", "dec_done"}
Encoding(c) == pc[c] \in {"enc_loop", "enc_done"}

\* The signed 16-bit integer with low byte lo and high byte hi.
SignedLE(lo, hi) == lo + 256 * hi - (IF hi >= 128 THEN 65536 ELSE 0)

\* Sample j (1-based) of a byte buffer read as little-endian int16.
SampleOfBytes(bytes, j) == SignedLE(bytes[2 * j - 1], bytes[2 * j])

Abs(n) == IF n < 0 THEN -n ELSE n

\* f is the float32 of value v / 32768 for an int16 v.
IsQuotient32768(f, v) ==
    /\ f.k = "num"
    /\ v = 0 => f.m = 0 /\ f.s = 0
    /\ v # 0 => /\ f.s = (IF v < 0 THEN 1 ELSE 0)
                /\ f.m >= 2^23 /\ f.m < 2^24
                /\ -(f.e + 15) \in 0..23
                /\ f.m = Abs(v) * 2^(-(f.e + 15))

\* f lies in [-1.0, 1.0).
InUnitRange(f) ==
    /\ f.k = "num"
    /\ \/ f.m = 0
       \/ f.e <= -24
       \/ f.s = 1 /\ f.m = 2^23 /\ f.e = -23

\* s > 1.0, s < -1.0 (infinities included, NaN excluded).
MagAboveOne(s) == s.k = "inf" \/ (s.k = "num" /\ (s.e > -23 \/ (s.e = -23 /\ s.m > 2^23)))
AboveOne(s) == s.k # "nan" /\ s.s = 0 /\ MagAboveOne(s)
BelowMinusOne(s) == s.k # "nan" /\ s.s = 1 /\ MagAboveOne(s)
InClosedUnit(s) == s.k = "num" /\ ~MagAboveOne(s)

----------------------------------------------------------------------------
(* C1: pcm16ToFloat returns exactly floor(L/2) samples for a buffer of L   *)
(* bytes: L/2 for even L, (L-1)/2 for odd L, none for L = 0; the trailing  *)
(* byte of an odd-length buffer is never read, and a finished call has     *)
(* read exactly the bytes of the complete pairs.                           *)
C1_DecodeLength ==
    \A c \in Calls : Decoding(c) =>
        LET L == Len(data[c])
            n == Len(samples[c])
        IN  /\ L % 2 = 0 => 2 * n = L
            /\ L % 2 = 1 => 2 * n = L - 1 /\ (L - 1) \notin reads[c]
            /\ L = 0 => n = 0
            /\ pc[c] = "dec_done" => reads[c] = 0..(2 * n - 1)

C1_Witness ==
    /\ pc[1] = "dec_done"
    /\ Len(data[1]) = 3
    /\ Len(samples[1]) = 1
    /\ reads[1] = {0, 1}

(* C2: every sample pcm16ToFloat has written is v / 32768 for the signed   *)
(* little-endian int16 v at bytes 2j, 2j+1; [0x00,0x80] gives -1.0,        *)
(* [0x00,0x00] gives 0.0, [0xFF,0x7F] gives 32767/32768, and every decoded *)
(* sample lies in [-1.0, 1.0).                                             *)
C2_DecodeValue ==
    \A c \in Calls : Decoding(c) =>
        /\ \A j \in 1..i[c] :
             /\ IsQuotient32768(samples[c][j], SampleOfBytes(data[c], j))
             /\ InUnitRange(samples[c][j])
        /\ pc[c] = "dec_done" /\ data[c] = <<0, 128>> =>
             samples[c] = <<[k |-> "num", s |-> 1, m |-> 2^23, e |-> -23]>>
        /\ pc[c] = "dec_done" /\ data[c] = <<0, 0>> =>
             samples[c] = <<[k |-> "num", s |-> 0, m |-> 0, e |-> -149]>>
        /\ pc[c] = "dec_done" /\ data[c] = <<255, 127>> =>
             samples[c] = <<[k |-> "num", s |-> 0, m |-> 32767 * 2^9, e |-> -24]>>

C2_Witness ==
    /\ pc[1] = "dec_done"
    /\ data[1] = <<52, 237>>
    /\ samples[1] = <<[k |-> "num", s |-> 1, m |-> 4812 * 2^11, e |-> -26]>>

(* C3: floatToPcm16 returns exactly 2N bytes for N samples, whatever the   *)
(* samples are.                                                            *)
C3_EncodeLength ==
    \A c \in Calls : Encoding(c) => Len(pcmData[c]) = 2 * Len(inSamples[c])

C3_Witness ==
    /\ pc[1] = "enc_done"
    /\ Len(inSamples[1]) = 2
    /\ inSamples[1][1].k = "inf"
    /\ inSamples[1][2].k = "nan"
    /\ Len(pcmData[1]) = 4

(* C4: floatToPcm16 clamps: every sample above 1.0 (+infinity included)    *)
(* encodes to the bytes of 1.0, [0xFF,0x7F] = 32767, and every sample      *)
(* below -1.0 (-infinity included) to the bytes of -1.0, [0x01,0x80] =     *)
(* -32767.                                                                 *)
C4_EncodeClamps ==
    \A c \in Calls : Encoding(c) =>
        \A j \in 1..i[c] :
            LET s == inSamples[c][j]
                out == <<pcmData[c][2 * j - 1], pcmData[c][2 * j]>>
            IN  /\ AboveOne(s) \/ s = [k |-> "num", s |-> 0, m |-> 2^23, e |-> -23] =>
                     out = <<255, 127>>
                /\ BelowMinusOne(s) \/ s = [k |-> "num", s |-> 1, m |-> 2^23, e |-> -23] =>
                     out = <<1, 128>>

C4_Witness ==
    /\ pc[1] = "enc_done"
    /\ inSamples[1] = <<[k |-> "num", s |-> 0, m |-> 3 * 2^22, e |-> -23],
                        [k |-> "num", s |-> 1, m |-> 2^23, e |-> -22]>>
    /\ pcmData[1] = <<255, 127, 1, 128>>

(* C5: for every sample floatToPcm16 has processed, the bytes at output    *)
(* offsets 2j, 2j+1 are the little-endian int16 v obtained from the        *)
(* float32 product p = c * 32767.0f, c the clamped sample, by truncation   *)
(* toward zero: |v| is the integer part of |p| and v has the sign of p     *)
(* (never floor, never round to nearest); the two bytes depend on sample j *)
(* alone.                                                                  *)
C5_EncodeTruncates ==
    \A c \in Calls : Encoding(c) =>
        \A j \in 1..i[c] :
            LET p == FMul32767(Clamp(inSamples[c][j]))
                v == SignedLE(pcmData[c][2 * j - 1], pcmData[c][2 * j])
            IN  /\ p.k = "num"
                /\ p.e < 0
                /\ Abs(v) = (IF -p.e >= 24 THEN 0 ELSE p.m \div 2^(-p.e))
                /\ v < 0 => p.s = 1
                /\ v > 0 => p.s = 0

\* -0.9f * 32767.0f = -29490.3 is stored as -29490 = [0xCE,0x8C].
C5_Witness ==
    /\ pc[1] = "enc_done"
    /\ inSamples[1] = <<[k |-> "num", s |-> 1, m |-> 15099494, e |-> -24]>>
    /\ pcmData[1] = <<206, 140>>

\* The deviation of a round trip s -> int16 -> r, in units of 1/32768 and
\* measured in the direction of s: s * 32768 = +-(q + rem / 2^sh) and
\* r * 32768 = +-u, so |s - r| * 32768 = |d + rem / 2^sh| with d = q - u.
Shift(s) == -(s.e + 15)
Whole(s) == IF Shift(s) >= 24 THEN 0 ELSE s.m \div 2^Shift(s)
Rest(s) == IF Shift(s) >= 24 THEN s.m ELSE s.m % 2^Shift(s)

\* r * 32768 as an integer, for r a multiple of 1/32768 in [-1, 1].
Scaled(r) ==
    IF r.m = 0 THEN 0
    ELSE (IF r.s = 1 THEN -1 ELSE 1) * (r.m \div 2^Shift(r))

IsScaled(r) ==
    /\ r.k = "num"
    /\ r.m # 0 => Shift(r) \in 0..23 /\ r.m % 2^Shift(r) = 0

Dev(s, r) == Whole(s) - (IF s.s = 1 THEN -1 ELSE 1) * Scaled(r)

\* floor(2^sh / 32767) for 0 <= sh <= 45.
FloorOver32767(sh) ==
    IF sh <= 30 THEN 2^sh \div 32767 ELSE 2^(sh - 15) + (2^(sh - 15) \div 32767)

\* |s - r| <= 1/32767
Within32767th(s, r) ==
    /\ IsScaled(r)
    /\ \/ Dev(s, r) <= 0
       \/ Dev(s, r) = 1 /\ (Shift(s) >= 40 \/ Rest(s) <= FloorOver32767(Shift(s)))
    /\ \/ Dev(s, r) >= -1
       \/ Dev(s, r) = -2 /\ Shift(s) <= 24
                         /\ 2^Shift(s) - Rest(s) <= FloorOver32767(Shift(s))

\* |s - r| < 2/32768
Within16384th(s, r) ==
    /\ IsScaled(r)
    /\ Dev(s, r) <= 1
    /\ Dev(s, r) >= -1 \/ (Dev(s, r) = -2 /\ Rest(s) > 0)

\* Call c has finished the round trip float -> PCM -> float of one sample.
FloatRoundTrip(c) ==
    /\ pc[c] = "dec_done"
    /\ hops[c] = 2
    /\ origin[c][1] = "floats"
    /\ Len(origin[c][2]) = 1

(* C6 as stated: for every s in [0, 1.0] the round trip float -> PCM ->    *)
(* float returns a value within 1/32767 of s.                              *)
C6_Original ==
    \A c \in Calls : FloatRoundTrip(c) =>
        LET s == origin[c][2][1]
        IN  InClosedUnit(s) /\ s.s = 0 => Within32767th(s, samples[c][1])

(* C6 amended: for every s in [-1.0, 1.0] the round trip float -> PCM ->   *)
(* float returns a value that differs from s by less than 2/32768, on the  *)
(* negative side as on the positive side.                                  *)
C6_RoundTripBound ==
    \A c \in Calls : FloatRoundTrip(c) =>
        LET s == origin[c][2][1]
        IN  InClosedUnit(s) => Within16384th(s, samples[c][1])

\* 0.9f comes back as 29490/32768: off by 1.2/32768, more than 1/32767.
C6_Witness ==
    /\ FloatRoundTrip(1)
    /\ origin[1][2][1] = [k |-> "num", s |-> 0, m |-> 15099494, e |-> -24]
    /\ samples[1] = <<[k |-> "num", s |-> 0, m |-> 29490 * 2^9, e |-> -24]>>
    /\ ~Within32767th(origin[1][2][1], samples[1][1])

(* C7: both operations are total: a call in its loop can always take its   *)
(* next step or return, it has executed one iteration per loop index and   *)
(* never more than there are output samples, it returns after exactly one  *)
(* iteration per output sample, it never runs into undefined behaviour (no *)
(* read past the input, no write past the output, no cast of a value that  *)
(* int16_t cannot hold), and empty input gives empty output.               *)
C7_Total ==
    \A c \in Calls :
        /\ ~ub[c]
        /\ pc[c] = "dec_loop" =>
             /\ iters[c] = i[c]
             /\ i[c] <= Len(samples[c])
             /\ ENABLED (DecodeStep(c) \/ DecodeReturn(c))
        /\ pc[c] = "dec_done" =>
             /\ iters[c] = Len(samples[c])
             /\ Len(data[c]) = 0 => samples[c] = <<>>
        /\ pc[c] = "enc_loop" =>
             /\ iters[c] = i[c]
             /\ 2 * i[c] <= Len(pcmData[c])
             /\ ENABLED (EncodeStep(c) \/ EncodeReturn(c))
        /\ pc[c] = "enc_done" =>
             /\ 2 * iters[c] = Len(pcmData[c])
             /\ Len(inSamples[c]) = 0 => pcmData[c] = <<>>

\* -infinity and NaN encoded, two iterations, four bytes returned.
C7_Witness ==
    /\ pc[1] = "enc_done"
    /\ inSamples[1] = <<[k |-> "inf", s |-> 1, m |-> 0, e |-> 0],
                        [k |-> "nan", s |-> 0, m |-> 0, e |-> 0]>>
    /\ iters[1] = 2
    /\ Len(pcmData[1]) = 4

(* C8: calls interleaved at every loop iteration do not disturb each       *)
(* other: no call changes its input buffer, every sample a call has        *)
(* produced so far and every result it returns is what the call produces   *)
(* when run alone on its input, whatever the other calls do and whatever   *)
(* calls came before.                                                      *)
C8_Isolated ==
    \A c \in Calls :
        /\ data[c] = argBytes[c]
        /\ ~ub[c]
        /\ Decoding(c) =>
             LET out == samples[SamplesSlot(c)]
                 alone == pcm16ToFloat(argBytes[c])
             IN  /\ Len(out) = Len(alone)
                 /\ \A j \in 1..i[c] : out[j] = alone[j]
                 /\ pc[c] = "dec_done" => out = alone
        /\ Encoding(c) =>
             LET out == pcmData[PcmSlot(c)]
                 alone == floatToPcm16(origin[c][2])
             IN  /\ inSamples[c] = origin[c][2]
                 /\ Len(out) = Len(alone)
                 /\ \A b \in 1..(2 * i[c]) : out[b] = alone[b]
                 /\ pc[c] = "enc_done" => out = alone

\* A decode and an encode both under way, each past its first sample.
C8_Witness ==
    /\ pc[1] = "dec_loop" /\ i[1] = 1 /\ Len(data[1]) = 4
    /\ pc[2] = "enc_loop" /\ i[2] = 1 /\ Len(inSamples[2]) = 2

\* Call c has just processed a NaN sample.
AfterNaN(c) == pc[c] = "enc_loop" /\ i[c] > 0 /\ inSamples[c][i[c]].k = "nan"

(* C9 as stated: for a NaN sample the clamp passes NaN through, so the     *)
(* value handed to the integer conversion is NaN.                          *)
C9_Original ==
    \A c \in Calls : AfterNaN(c) => clamped[c].k = "nan"

(* C9 amended: for a NaN sample the clamp yields 1.0 (std::min(1.0f, NaN)  *)
(* returns its first argument), so the value handed to the integer         *)
(* conversion is 1.0 and the int16 written is 32767 = [0xFF,0x7F].         *)
C9_NaNClampsToOne ==
    \A c \in Calls : AfterNaN(c) =>
        /\ clamped[c] = [k |-> "num", s |-> 0, m |-> 2^23, e |-> -23]
        /\ pcmData[c][2 * i[c] - 1] = 255
        /\ pcmData[c][2 * i[c]] = 127

C9_Witness ==
    /\ AfterNaN(1)
    /\ i[1] = 2
    /\ pcmData[1][3] = 255
    /\ pcmData[1][4] = 127

\* v after k decode/encode cycles according to C10.
Decayed(v, k) == IF Abs(v) <= k THEN 0 ELSE IF v < 0 THEN v + k ELSE v - k

(* C10: PCM -> float -> PCM loses one unit of magnitude per cycle: after k *)
(* cycles over an even-length buffer every int16 sample v has become       *)
(* sign(v) * max(0, |v| - k)  (one cycle: 32767 -> 32766, -32768 ->        *)
(* -32767, 1 -> 0, 0 -> 0), and floatToPcm16 never emits -32768.           *)
C10_RoundTripDecays ==
    \A c \in Calls : Encoding(c) =>
        /\ \A j \in 1..i[c] : SampleOfBytes(pcmData[c], j) # -32768
        /\ pc[c] = "enc_done" /\ origin[c][1] = "bytes" /\ Len(origin[c][2]) % 2 = 0 =>
             /\ hops[c] % 2 = 0
             /\ Len(pcmData[c]) = Len(origin[c][2])
             /\ \A j \in 1..(Len(pcmData[c]) \div 2) :
                  SampleOfBytes(pcmData[c], j) =
                      Decayed(SampleOfBytes(origin[c][2], j), hops[c] \div 2)

\* -32768 after two cycles is -32766 = [0x02,0x80].
C10_Witness ==
    /\ pc[1] = "enc_done"
    /\ origin[1] = <<"bytes", <<0, 128>>>>
    /\ hops[1] = 4
    /\ pcmData[1] = <<2, 128>>

=============================================================================
